---- MODULE Spec2Model ----
\* django-generic-bookmarks: bookmark storage, the model backend, the toggle
\* of the bookmark form and the handler registry.
\*
\* The modules managers and exceptions of the bookmarks package are not among
\* the available sources: the manager operations (Manager_...) are written
\* from the contract of section 4.1 of the specification and from the
\* docstrings of BaseBackend.
EXTENDS Integers, Sequences, FiniteSets, TLC

\* ---- bounds ----
\* the wall clock takes the values 0..MaxClock
MaxClock == 1
\* number of rows ever inserted in the bookmark table
MaxInserts == 2
\* number of handler instances ever created by a registry
MaxHandlers == 2
\* length of the lists given to register and unregister
MaxList == 2

\* ---- universe ----
None == "None"
\* target models (the docstring of Registry.register names Article and Film)
Models == {"Article", "Film"}
\* Django user instances (BaseBackend.get_model: "a Django user instance")
Users == {"user1", "user2"}
\* bookmark keys; "main" is settings.DEFAULT_KEY
Keys == {"main", "other"}
DEFAULT_KEY == "main"
CAN_REMOVE_BOOKMARKS == TRUE

\* the target entities: two instances of each model, so that an id is shared
\* by entities of different types and a type by entities of different ids
ObjectIds == {1, 2}
Entities == [model : Models, pk : ObjectIds]
NoEntity == [model |-> None, pk |-> 0]

VARIABLES
    storage,      \* rows of the bookmark table
    nextId,       \* next primary key of the bookmark table
    now,          \* wall clock read by auto_now_add
    entities,     \* target entities that exist
    registry,     \* Registry._registry: model -> handler or None
    receivers,    \* live pre_delete receivers: (sender model, handler identity)
    nextHandler,  \* identity of the next handler instance
    latest,       \* model -> handler made by the latest register call that
                  \* returned, 0 once the model is unregistered
    threads,      \* the requests that run BookmarkForm.save side by side:
                  \* where each stands and what it has read
    form,         \* the BookmarkForm at hand: its request's user, its data and
                  \* what validation has left on it
    last          \* the last operation, its arguments and its outcome

vars == <<storage, nextId, now, entities, registry, receivers, nextHandler,
          latest, threads, form, last>>

\* ---- content types ----
\* utils.get_content_type_for_model: the type tag of a model
get_content_type_for_model(model) ==
    CASE model = "Article" -> 1
      [] model = "Film" -> 2
      [] OTHER -> 0

\* ---- Bookmark ----
\* a row of models.Bookmark; created_at is set from the clock on insert
Bookmark(id, user, instance, key, t) ==
    [id |-> id,
     content_type |-> get_content_type_for_model(instance.model),
     object_id |-> instance.pk,
     key |-> key,
     user |-> user,
     created_at |-> t]

\* mutant: the table declares no uniqueness constraint
no_unique_together(a, b) == FALSE

\* Bookmark.Meta.unique_together = (content_type, object_id, key, user)
unique_together(a, b) ==
    /\ a.content_type = b.content_type
    /\ a.object_id = b.object_id
    /\ a.key = b.key
    /\ a.user = b.user

\* the (user, target, key) of the rows of a table
Tuples(st) ==
    {[user |-> b.user, content_type |-> b.content_type,
      object_id |-> b.object_id, key |-> b.key] : b \in st}

\* lookups are keyword arguments: a function from field names to values
Matches(row, lookups) == \A f \in DOMAIN lookups : row[f] = lookups[f]

\* ---- BookmarksManager (from the spec) ----
\* objects.filter_for(instance, **kwargs): the rows referencing instance
Manager_filter_for(st, instance, lookups) ==
    {b \in st : /\ b.content_type = get_content_type_for_model(instance.model)
                /\ b.object_id = instance.pk
                /\ Matches(b, lookups)}

\* objects.filter_with_contents(**lookups)
Manager_filter_with_contents(st, lookups) == {b \in st : Matches(b, lookups)}

\* objects.add: an insert, refused by the uniqueness constraint of the table
Manager_add(st, user, instance, key) ==
    LET row == Bookmark(nextId, user, instance, key, now) IN
    IF \E b \in st : unique_together(b, row)
    THEN [storage |-> st, outcome |-> "AlreadyExists", ret |-> {}]
    ELSE [storage |-> st \cup {row}, outcome |-> "ok", ret |-> {row}]

\* objects.remove: deletes the row and returns it detached (no primary key)
Manager_remove(st, user, instance, key) ==
    LET found == Manager_filter_for(st, instance, [user |-> user, key |-> key]) IN
    IF found = {}
    THEN [storage |-> st, outcome |-> "DoesNotExist", ret |-> {}]
    ELSE [storage |-> st \ found, outcome |-> "ok",
          ret |-> {[b EXCEPT !.id = 0] : b \in found}]

\* objects.remove_all_for: deletes every row referencing instance
Manager_remove_all_for(st, instance) ==
    [storage |-> st \ Manager_filter_for(st, instance, <<>>),
     outcome |-> "ok", ret |-> {}]

\* ---- order_by ----
Reverse(s) == [i \in 1..Len(s) |-> s[Len(s) + 1 - i]]

\* the sequences that list every row of S once
Listings(S) ==
    {s \in [1..Cardinality(S) -> S] : \A i, j \in DOMAIN s : i # j => s[i] # s[j]}

\* queryset.order_by('created_at') / order_by('-created_at'): any listing of
\* the rows sorted on the created_at column; rows with equal created_at come
\* in an order the database chooses
order_by(S, order) ==
    {s \in Listings(S) :
        \A i, j \in DOMAIN s : i < j =>
            IF order = "-created_at"
            THEN s[i].created_at >= s[j].created_at
            ELSE s[i].created_at <= s[j].created_at}

\* ---- Backend ----
\* mutant: add answers with the stored bookmark instead of raising
Backend_add_or_get(user, instance, key) ==
    LET r == Manager_add(storage, user, instance, key) IN
    IF r.outcome = "AlreadyExists"
    THEN [r EXCEPT !.outcome = "ok",
                   !.ret = Manager_filter_for(storage, instance,
                                              [user |-> user, key |-> key])]
    ELSE r

Backend_add(user, instance, key) == Manager_add(storage, user, instance, key)

\* mutant: remove swallows DoesNotExist
Backend_remove_silent(user, instance, key) ==
    [Manager_remove(storage, user, instance, key) EXCEPT !.ret = {},
                                                         !.outcome = "ok"]

\* Backend.remove has no return statement: the manager's result is dropped
Backend_remove(user, instance, key) ==
    [Manager_remove(storage, user, instance, key) EXCEPT !.ret = {}]

\* mutant: remove_all_for selects on the object id alone
Backend_remove_all_for_any_type(instance) ==
    [storage |-> {b \in storage : b.object_id # instance.pk},
     outcome |-> "ok", ret |-> {}]

Backend_remove_all_for(instance) == Manager_remove_all_for(storage, instance)

Backend_filter_by(user, reversed, kwargs) ==
    LET lookups == [f \in {"user"} \cup DOMAIN kwargs |->
                        IF f \in DOMAIN kwargs THEN kwargs[f] ELSE user]
        order == IF reversed THEN "-created_at" ELSE "created_at"
    IN order_by(Manager_filter_with_contents(storage, lookups), order)

Backend_filter_for(instance, reversed, kwargs) ==
    LET order == IF reversed THEN "-created_at" ELSE "created_at"
    IN order_by(Manager_filter_for(storage, instance, kwargs), order)

\* mutant: exists forgets the key lookup
Backend_exists_any_key(user, instance, key) ==
    \E s \in Backend_filter_for(instance, FALSE, [user |-> user]) : Len(s) > 0

\* filter_for(instance, user=user, key=key).exists()
Backend_exists(user, instance, key) ==
    \E s \in Backend_filter_for(instance, FALSE, [user |-> user, key |-> key]) :
        Len(s) > 0

\* ---- Handler ----
NoHandler ==
    [id |-> 0, model |-> None, cls |-> None, default_key |-> None,
     can_remove_bookmarks |-> FALSE]

\* the handler_class argument of register: None stands for Handler
HandlerClassArgs == {None, "CustomHandler"}

\* keyword arguments of register: overrides of the handler attributes
Options == {<<>>, [default_key |-> "other"], [can_remove_bookmarks |-> FALSE]}

\* Handler.__init__ with the class attributes default_key and
\* can_remove_bookmarks read from the settings
Handler(id, model, cls) ==
    [id |-> id, model |-> model, cls |-> cls, default_key |-> DEFAULT_KEY,
     can_remove_bookmarks |-> CAN_REMOVE_BOOKMARKS]

\* Handler.deleting_target_object: self.backend.remove_all_for(instance)
deleting_target_object(st, instance) == Manager_remove_all_for(st, instance).storage

\* ---- Registry ----
\* mutant: the options are set on the handler class, so that they show on
\* every handler of the class, also on those made later
_get_handler_instance_on_class(id, model, handler_class, options) ==
    LET handler == Handler(id, model, handler_class)
        shared == {registry[m] : m \in {n \in Models : registry[n].cls = handler_class}}
    IN
    [f \in DOMAIN handler |->
        IF f \in DOMAIN options THEN options[f]
        ELSE IF f \in {"default_key", "can_remove_bookmarks"} /\ shared # {}
        THEN (CHOOSE h \in shared : TRUE)[f]
        ELSE handler[f]]

\* Registry._get_handler_instance: a new instance, then setattr of each option
_get_handler_instance(id, model, handler_class, options) ==
    LET handler == Handler(id, model, handler_class) IN
    [f \in DOMAIN handler |->
        IF f \in DOMAIN options THEN options[f] ELSE handler[f]]

\* mutant: the receiver is not connected
_connect_nothing(recv, model, handler) == recv

\* Registry._connect_model_signals: pre_delete.connect(receiver, sender=model)
_connect_model_signals(recv, model, handler) ==
    recv \cup {[sender |-> model, receiver |-> handler.id]}

\* isinstance(model_or_iterable, ModelBase): a single model becomes a list
AsList(model_or_iterable) ==
    IF model_or_iterable.single
    THEN <<model_or_iterable.model>>
    ELSE model_or_iterable.models

\* the loop of Registry.register from its i-th model on
RECURSIVE RegisterFrom(_, _, _, _, _, _, _)
RegisterFrom(models, i, reg, recv, id, handler_class, options) ==
    IF i > Len(models)
    THEN [registry |-> reg, receivers |-> recv, nextHandler |-> id,
          outcome |-> "ok"]
    ELSE IF reg[models[i]] # NoHandler
    THEN [registry |-> reg, receivers |-> recv, nextHandler |-> id,
          outcome |-> "AlreadyHandled"]
    ELSE LET handler == _get_handler_instance(id, models[i], handler_class, options)
         IN RegisterFrom(models, i + 1,
                         [reg EXCEPT ![models[i]] = handler],
                         _connect_model_signals(recv, models[i], handler),
                         id + 1, handler_class, options)

\* Registry.register(model_or_iterable, handler_class=None, **kwargs)
Registry_register(model_or_iterable, handler_class, options) ==
    RegisterFrom(AsList(model_or_iterable), 1, registry, receivers, nextHandler,
                 IF handler_class = None THEN "Handler" ELSE handler_class,
                 options)

\* the loop of Registry.unregister from its i-th model on
RECURSIVE UnregisterFrom(_, _, _)
UnregisterFrom(models, i, reg) ==
    IF i > Len(models)
    THEN [registry |-> reg, outcome |-> "ok"]
    ELSE IF reg[models[i]] = NoHandler
    THEN [registry |-> reg, outcome |-> "NotHandled"]
    ELSE UnregisterFrom(models, i + 1, [reg EXCEPT ![models[i]] = NoHandler])

\* Registry.unregister(model_or_iterable)
Registry_unregister(model_or_iterable) ==
    UnregisterFrom(AsList(model_or_iterable), 1, registry)

\* Registry.get_handler(model_or_instance): an instance stands for its type
Registry_get_handler(model_or_instance) ==
    LET model == IF model_or_instance.isModel
                 THEN model_or_instance.model
                 ELSE model_or_instance.instance.model
    IN registry[model]

\* ---- BookmarkForm ----
\* the user of a request without a login (tests.Request: AnonymousUser())
AnonymousUser == "AnonymousUser"

\* request.user.is_anonymous()
is_anonymous(user) == user = AnonymousUser

\* submitted values of the three fields
TypeIdData == {-1, 0, 1, 2, 9}
ObjectIdData == {"", "1", "9", "abc"}
KeyData == {"main", "bad key"}
FormData == [content_type_id : TypeIdData, object_id : ObjectIdData, key : KeyData]
FormUsers == {"user1", AnonymousUser}

\* the cleaned value of a field is a set: empty when the field has an error
\* content_type_id = forms.IntegerField(min_value=0)
IntegerField_clean(value) == IF value >= 0 THEN {value} ELSE {}

\* object_id = forms.CharField(): a required field
CharField_clean(value) == IF value = "" THEN {} ELSE {value}

\* mutant: the key field takes any value
RegexField_any(value) == {value}

\* key = forms.RegexField(regex=r'^[\w.+-]+$'): letters, digits, _ . + -
RegexField_clean(value) == IF value \in {"main", "other"} THEN {value} ELSE {}

\* ContentType.objects.get(pk=content_type_id): empty for DoesNotExist
ContentType_get(pk) == {m \in Models : get_content_type_for_model(m) = pk}

\* the primary key a pk lookup makes of the submitted string: empty when the
\* string is no number (the lookup then raises ValueError)
ParsePk(value) ==
    CASE value = "1" -> {1}
      [] value = "2" -> {2}
      [] value = "9" -> {9}
      [] OTHER -> {}

\* ct.get_object_for_this_type(pk=object_id): empty for DoesNotExist
get_object_for_this_type(model, pk) ==
    {e \in entities : e.model = model /\ e.pk = pk}

NoForm ==
    [user |-> None, content_type_id |-> -1, object_id |-> "", key |-> "",
     validated |-> FALSE, errors |-> {}, messages |-> {},
     has_cleaned_data |-> FALSE,
     cleaned_data |-> {}, _instance |-> NoEntity]

\* BookmarkForm.__init__(request, backend, data=data)
BookmarkForm(user, data) ==
    [NoForm EXCEPT !.user = user,
                   !.content_type_id = data.content_type_id,
                   !.object_id = data.object_id,
                   !.key = data.key]

\* mutant: clean does not look at the user of the request
BookmarkForm_clean_any_user(user, content_type_id, object_id) ==
    IF /\ content_type_id # {} /\ content_type_id # {0}
       /\ object_id # {}
    THEN LET ct == UNION {ContentType_get(v) : v \in content_type_id}
             pk == UNION {ParsePk(v) : v \in object_id}
             found == UNION {get_object_for_this_type(m, k) : m \in ct, k \in pk}
         IN
         IF ct = {} THEN [outcome |-> "ValidationError", instance |-> NoEntity,
                         message |-> {"Invalid content type."}]
         ELSE IF pk = {} THEN [outcome |-> "ValueError", instance |-> NoEntity,
                              message |-> {}]
         ELSE IF found = {}
         THEN [outcome |-> "ValidationError", instance |-> NoEntity,
               message |-> {"Invalid instance."}]
         ELSE [outcome |-> "ok", instance |-> CHOOSE e \in found : TRUE,
               message |-> {}]
    ELSE [outcome |-> "ok", instance |-> NoEntity, message |-> {}]

\* BookmarkForm.clean with the cleaned content_type_id and object_id (absent
\* when the field has an error)
BookmarkForm_clean(user, content_type_id, object_id) ==
    IF is_anonymous(user)
    THEN [outcome |-> "ValidationError", instance |-> NoEntity,
          message |-> {"Invalid user."}]
    ELSE IF /\ content_type_id # {} /\ content_type_id # {0}
            /\ object_id # {}
    THEN LET ct == UNION {ContentType_get(v) : v \in content_type_id}
             pk == UNION {ParsePk(v) : v \in object_id}
             found == UNION {get_object_for_this_type(m, k) : m \in ct, k \in pk}
         IN
         IF ct = {} THEN [outcome |-> "ValidationError", instance |-> NoEntity,
                         message |-> {"Invalid content type."}]
         ELSE IF pk = {} THEN [outcome |-> "ValueError", instance |-> NoEntity,
                              message |-> {}]
         ELSE IF found = {}
         THEN [outcome |-> "ValidationError", instance |-> NoEntity,
               message |-> {"Invalid instance."}]
         ELSE [outcome |-> "ok", instance |-> CHOOSE e \in found : TRUE,
               message |-> {}]
    ELSE [outcome |-> "ok", instance |-> NoEntity, message |-> {}]

\* ---- requests side by side ----
\* two requests, each with a valid form of its own for user1 and the default
\* key, in BookmarkForm.save
Threads == {1, 2}

NoRequest ==
    [pc |-> "done", instance |-> NoEntity, exists |-> FALSE, outcome |-> "none",
     changed |-> FALSE]

\* ---- inputs ----
\* extra lookups given to filter_by (user is its positional argument)
FilterByKwargs == {<<>>} \cup {[key |-> k] : k \in Keys}

\* extra lookups given to filter_for
FilterForKwargs ==
    {<<>>} \cup {[key |-> k] : k \in Keys} \cup {[user |-> u] : u \in Users}
    \cup {[user |-> u, key |-> k] : u \in Users, k \in Keys}

\* a model class, or a list of model classes (repetitions included)
ModelLists == UNION {[1..n -> Models] : n \in 0..MaxList}
ModelOrIterable ==
    {[single |-> TRUE, model |-> m, models |-> <<>>] : m \in Models}
    \cup {[single |-> FALSE, model |-> None, models |-> l] : l \in ModelLists}

\* a model class, or an instance of a model
ModelOrInstance ==
    {[isModel |-> TRUE, model |-> m, instance |-> NoEntity] : m \in Models}
    \cup {[isModel |-> FALSE, model |-> None, instance |-> e] : e \in Entities}

\* ---- initial state ----
Init ==
    /\ storage = {}
    /\ nextId = 1
    /\ now = 0
    /\ entities = Entities
    /\ registry = [m \in Models |-> NoHandler]
    /\ receivers = {}
    /\ nextHandler = 1
    /\ latest = [m \in Models |-> 0]
    /\ form = NoForm
    /\ threads = [t \in Threads |-> NoRequest]
    /\ last = [op |-> "init"]

registryVars == <<registry, receivers, nextHandler, latest>>
storageVars == <<storage, nextId>>

\* ---- backend operations ----
\* the clock advances between two operations
Tick ==
    /\ now < MaxClock
    /\ now' = now + 1
    /\ last' = [op |-> "tick"]
    /\ UNCHANGED <<threads, form, storage, nextId, entities, registryVars>>

Add(user, instance, key) ==
    LET r == Backend_add(user, instance, key) IN
    /\ instance \in entities
    /\ r.outcome = "ok" => nextId <= MaxInserts
    /\ storage' = r.storage
    /\ nextId' = IF r.outcome = "ok" THEN nextId + 1 ELSE nextId
    /\ last' = [op |-> "add", outcome |-> r.outcome]
    /\ UNCHANGED <<threads, form, now, entities, registryVars>>

Remove(user, instance, key) ==
    LET r == Backend_remove(user, instance, key) IN
    /\ storage' = r.storage
    /\ last' = [op |-> "remove", outcome |-> r.outcome]
    /\ UNCHANGED <<threads, form, nextId, now, entities, registryVars>>

RemoveAllFor(instance) ==
    LET r == Backend_remove_all_for(instance) IN
    /\ storage' = r.storage
    /\ last' = [op |-> "remove_all_for", instance |-> instance]
    /\ UNCHANGED <<threads, form, nextId, now, entities, registryVars>>

Exists(user, instance, key) ==
    /\ last' = [op |-> "exists", found |-> Backend_exists(user, instance, key)]
    /\ UNCHANGED <<threads, form, storageVars, now, entities, registryVars>>

FilterBy(user, reversed, kwargs) ==
    /\ \E rows \in Backend_filter_by(user, reversed, kwargs) :
         last' = [op |-> "filter_by", reversed |-> reversed, rows |-> rows]
    /\ UNCHANGED <<threads, form, storageVars, now, entities, registryVars>>

FilterFor(instance, reversed, kwargs) ==
    /\ \E rows \in Backend_filter_for(instance, reversed, kwargs) :
         last' = [op |-> "filter_for", reversed |-> reversed, rows |-> rows]
    /\ UNCHANGED <<threads, form, storageVars, now, entities, registryVars>>

\* ---- BookmarkForm.save on a valid form ----
\* method = backend.remove if self._exists() else backend.add
Form_save(user, instance, key) ==
    IF Backend_exists(user, instance, key)
    THEN [Backend_remove(user, instance, key) EXCEPT !.outcome =
             IF @ = "ok" THEN "removed" ELSE @]
    ELSE [Backend_add(user, instance, key) EXCEPT !.outcome =
             IF @ = "ok" THEN "added" ELSE @]

FormSave(user, instance, key) ==
    LET r == Form_save(user, instance, key) IN
    /\ instance \in entities
    /\ r.outcome = "added" => nextId <= MaxInserts
    /\ storage' = r.storage
    /\ nextId' = IF r.outcome = "added" THEN nextId + 1 ELSE nextId
    /\ last' = [op |-> "save", outcome |-> r.outcome]
    /\ UNCHANGED <<threads, form, now, entities, registryVars>>

\* ---- BookmarkForm.save of two requests, statement by statement ----
\* two requests arrive, each for a target of its own choice
ConcurrentRequests(targets) ==
    /\ \A t \in Threads : threads[t].pc = "done"
    /\ threads' = [t \in Threads |->
                     [pc |-> "start", instance |-> targets[t], exists |-> FALSE,
                      outcome |-> "none", changed |-> FALSE]]
    /\ last' = [op |-> "requests"]
    /\ UNCHANGED <<form, storageVars, now, entities, registryVars>>

\* self._exists(): the existence check of save
SaveExists(t) ==
    LET r == threads[t] IN
    /\ r.pc = "start"
    /\ threads' = [threads EXCEPT ![t] =
                     [r EXCEPT !.pc = "checked",
                               !.exists = Backend_exists("user1", r.instance,
                                                         DEFAULT_KEY)]]
    /\ last' = [op |-> "save_exists"]
    /\ UNCHANGED <<form, storageVars, now, entities, registryVars>>

\* method(self.request.user, self._instance, key): the insert or the delete
\* chosen by the check made before
SaveMethod(t) ==
    LET r == threads[t]
        m == IF r.exists THEN Backend_remove("user1", r.instance, DEFAULT_KEY)
                         ELSE Backend_add("user1", r.instance, DEFAULT_KEY)
    IN
    /\ r.pc = "checked"
    /\ (~r.exists /\ m.outcome = "ok") => nextId <= MaxInserts
    /\ storage' = m.storage
    /\ nextId' = IF ~r.exists /\ m.outcome = "ok" THEN nextId + 1 ELSE nextId
    /\ threads' = [threads EXCEPT ![t] =
                     [r EXCEPT !.pc = "done", !.outcome = m.outcome,
                               !.changed = m.storage # storage]]
    /\ last' = [op |-> "save_method"]
    /\ UNCHANGED <<form, now, entities, registryVars>>

\* ---- BookmarkForm: validation and the calls on a form ----
\* BaseForm.full_clean: the fields are cleaned, then clean() runs; a
\* ValidationError of clean() is kept as a form error, and cleaned_data is
\* deleted when there is any error. Another exception of clean() leaves
\* full_clean half way: the field errors and cleaned_data stay as they are
BookmarkForm_full_clean(f) ==
    LET content_type_id == IntegerField_clean(f.content_type_id)
        object_id == CharField_clean(f.object_id)
        key == RegexField_clean(f.key)
        field_errors == (IF content_type_id = {} THEN {"content_type_id"} ELSE {})
                        \cup (IF object_id = {} THEN {"object_id"} ELSE {})
                        \cup (IF key = {} THEN {"key"} ELSE {})
        cleaned == {"content_type_id", "object_id", "key"} \ field_errors
        c == BookmarkForm_clean(f.user, content_type_id, object_id)
        errors == field_errors
                  \cup (IF c.outcome = "ValidationError" THEN {"__all__"} ELSE {})
        kept == c.outcome = "ValueError" \/ errors = {}
    IN
    [form |-> [f EXCEPT !.validated = TRUE,
                        !.errors = errors,
                        !.messages = c.message,
                        !.has_cleaned_data = kept,
                        !.cleaned_data = IF kept THEN cleaned ELSE {},
                        !._instance = c.instance],
     outcome |-> IF c.outcome = "ValueError" THEN "ValueError" ELSE "ok"]

\* form.is_valid(): validates once (BaseForm.errors), then answers from the
\* errors it kept
BookmarkForm_is_valid(f) ==
    LET r == IF f.validated THEN [form |-> f, outcome |-> "ok"]
                            ELSE BookmarkForm_full_clean(f)
    IN [form |-> r.form, outcome |-> r.outcome,
        valid |-> r.outcome = "ok" /\ r.form.errors = {}]

\* BookmarkForm.instance()
BookmarkForm_instance(f) ==
    LET v == BookmarkForm_is_valid(f) IN
    [form |-> v.form, outcome |-> v.outcome,
     instance |-> IF v.valid THEN v.form._instance ELSE NoEntity]

\* BookmarkForm._exists: backend.exists(request.user, self._instance, key);
\* the queries of the manager fail on a target that is None
BookmarkForm__exists(f) ==
    IF ~f.has_cleaned_data THEN [outcome |-> "AttributeError", found |-> FALSE]
    ELSE IF "key" \notin f.cleaned_data THEN [outcome |-> "KeyError", found |-> FALSE]
    ELSE IF f._instance = NoEntity THEN [outcome |-> "Error", found |-> FALSE]
    ELSE [outcome |-> "ok", found |-> Backend_exists(f.user, f._instance, f.key)]

\* mutant: bookmark_exists answers False on a form that is not valid
BookmarkForm_bookmark_exists_lenient(f) ==
    LET v == BookmarkForm_is_valid(f) IN
    IF v.outcome # "ok"
    THEN [form |-> v.form, outcome |-> v.outcome, found |-> FALSE]
    ELSE IF v.valid
    THEN [form |-> v.form] @@ BookmarkForm__exists(v.form)
    ELSE [form |-> v.form, outcome |-> "ok", found |-> FALSE]

\* BookmarkForm.bookmark_exists()
BookmarkForm_bookmark_exists(f) ==
    LET v == BookmarkForm_is_valid(f) IN
    IF v.outcome # "ok"
    THEN [form |-> v.form, outcome |-> v.outcome, found |-> FALSE]
    ELSE IF v.valid
    THEN [form |-> v.form] @@ BookmarkForm__exists(v.form)
    ELSE [form |-> v.form, outcome |-> "ValueError", found |-> FALSE]

\* BookmarkForm.save(): reads cleaned_data['key'], then toggles
BookmarkForm_save(f) ==
    LET x == BookmarkForm__exists(f) IN
    IF x.outcome # "ok"
    THEN [storage |-> storage, outcome |-> x.outcome, ret |-> {}]
    ELSE Form_save(f.user, f._instance, f.key)

NewForm(user, data) ==
    /\ form' = BookmarkForm(user, data)
    /\ last' = [op |-> "form"]
    /\ UNCHANGED <<threads, storageVars, now, entities, registryVars>>

IsValid ==
    LET r == BookmarkForm_is_valid(form) IN
    /\ form # NoForm
    /\ form' = r.form
    /\ last' = [op |-> "is_valid", outcome |-> r.outcome, valid |-> r.valid]
    /\ UNCHANGED <<threads, storageVars, now, entities, registryVars>>

Instance ==
    LET r == BookmarkForm_instance(form) IN
    /\ form # NoForm
    /\ form' = r.form
    /\ last' = [op |-> "instance", outcome |-> r.outcome, instance |-> r.instance]
    /\ UNCHANGED <<threads, storageVars, now, entities, registryVars>>

BookmarkExists ==
    LET r == BookmarkForm_bookmark_exists(form) IN
    /\ form # NoForm
    /\ form' = r.form
    /\ last' = [op |-> "bookmark_exists", outcome |-> r.outcome, found |-> r.found]
    /\ UNCHANGED <<threads, storageVars, now, entities, registryVars>>

Save ==
    LET r == BookmarkForm_save(form) IN
    /\ form # NoForm
    /\ r.outcome = "added" => nextId <= MaxInserts
    /\ storage' = r.storage
    /\ nextId' = IF r.outcome = "added" THEN nextId + 1 ELSE nextId
    /\ last' = [op |-> "form_save", outcome |-> r.outcome, ret |-> r.ret,
                before |-> Tuples(storage)]
    /\ UNCHANGED <<threads, form, now, entities, registryVars>>

\* ---- Handler: keys and hooks ----
\* Handler.get_key(request, instance)
Handler_get_key(handler) == handler.default_key

\* Handler.allow_key(request, instance, key)
Handler_allow_key(handler, key) == key = Handler_get_key(handler)

\* Handler.pre_add(request, form): request.user.is_authenticated()
Handler_pre_add(handler, user) == ~is_anonymous(user)

\* mutant: pre_remove does not look at can_remove_bookmarks
Handler_pre_remove_any(handler, user) == ~is_anonymous(user)

\* Handler.pre_remove(request, form)
Handler_pre_remove(handler, user) ==
    ~is_anonymous(user) /\ handler.can_remove_bookmarks

\* Registry._pre_add(sender, form, request): the relay of the signal
\* bookmark_will_be_added. The model is read as type(form.target_object),
\* an attribute a BookmarkForm does not have
Registry__pre_add(f, user) ==
    IF "target_object" \notin DOMAIN f
    THEN [outcome |-> "AttributeError", ret |-> {}]
    ELSE IF registry[f.target_object.model] # NoHandler
    THEN [outcome |-> "ok",
          ret |-> {Handler_pre_add(registry[f.target_object.model], user)}]
    ELSE [outcome |-> "ok", ret |-> {FALSE}]

\* Registry._pre_remove(sender, form, request): the relay of the signal
\* bookmark_will_be_removed
Registry__pre_remove(f, user) ==
    IF "target_object" \notin DOMAIN f
    THEN [outcome |-> "AttributeError", ret |-> {}]
    ELSE IF registry[f.target_object.model] # NoHandler
    THEN [outcome |-> "ok",
          ret |-> {Handler_pre_remove(registry[f.target_object.model], user)}]
    ELSE [outcome |-> "ok", ret |-> {FALSE}]

\* the positional arguments a caller passes to handler.get_key after self:
\* the view and the template tags pass request, instance and the key given
\* by the user (None when the tag has no *using* argument)
ProvidedKeys == Keys \cup {None}
GetKeyArgs == {<<"request", "instance">>}
              \cup {<<"request", "instance", k>> : k \in ProvidedKeys}

\* a call of Handler.get_key: the method is defined with the parameters
\* (self, request, instance); any other number of arguments is a TypeError
Handler_get_key_call(handler, args) ==
    IF Len(args) = 2
    THEN [outcome |-> "ok", ret |-> {Handler_get_key(handler)}]
    ELSE [outcome |-> "TypeError", ret |-> {}]

GetKey(model, args) ==
    LET r == Handler_get_key_call(registry[model], args) IN
    /\ registry[model] # NoHandler
    /\ last' = [op |-> "get_key", outcome |-> r.outcome, ret |-> r.ret]
    /\ UNCHANGED <<threads, form, storageVars, now, entities, registryVars>>

\* ---- the bookmark view ----
\* dotted names sent as 'model' in the body of a request
ModelNames == {"app.Article", "app.Film", "app.Nothing"}

\* get_model(*model_name.split('.')): empty (None) for a name of no model
get_model(model_name) ==
    CASE model_name = "app.Article" -> {"Article"}
      [] model_name = "app.Film" -> {"Film"}
      [] OTHER -> {}

\* the data of a request: the form fields, with every key of the model
PostData ==
    [content_type_id : {0, 1, 2, 9}, object_id : {"1", "9"},
     key : KeyData \cup Keys]

Requests ==
    [method : {"GET", "POST"}, model : ModelNames, user : FormUsers,
     data : PostData]

\* the names the module bookmarks.handlers defines at its top level
handlers_module == {"Handler", "Registry", "store"}

\* the body of the view for a POST: the model is resolved, then the registry
\* is looked up as handlers.library and the form as handler.get_form. The
\* module handlers defines no library and the class Handler no get_form:
\* the lookup raises AttributeError and the request ends there
bookmark_post(request) ==
    LET model == get_model(request.model) IN
    IF model = {}
    THEN [status |-> "400", body |-> "Invalid model.",
          trace |-> <<"get_model">>, storage |-> storage,
          created |-> {}]
    ELSE IF "library" \notin handlers_module
    THEN [status |-> "AttributeError", body |-> "",
          trace |-> <<"get_model">>, storage |-> storage,
          created |-> {}]
    ELSE IF \E m \in model : registry[m] = NoHandler
    THEN [status |-> "400", body |-> "Unregistered model.",
          trace |-> <<"get_model", "get_handler">>, storage |-> storage,
          created |-> {}]
    ELSE [status |-> "AttributeError", body |-> "",
          trace |-> <<"get_model", "get_handler">>, storage |-> storage,
          created |-> {}]

\* mutant: the view does not look at the method of the request
bookmark_any_method(request) == bookmark_post(request)

\* views.bookmark(request): the response (its status, or the exception that
\* leaves the view), the steps taken and the bookmarks stored afterwards
bookmark(request) ==
    IF request.method = "POST"
    THEN bookmark_post(request)
    ELSE [status |-> "403", body |-> "Forbidden.", trace |-> <<>>,
          storage |-> storage,
          created |-> {}]

View(request) ==
    LET r == bookmark(request) IN
    /\ storage' = r.storage
    /\ last' = [op |-> "view", method |-> request.method, status |-> r.status,
                trace |-> r.trace, model |-> request.model,
                user |-> request.user]
    /\ UNCHANGED <<threads, form, nextId, now, entities, registryVars>>

\* ---- deletion of a target entity ----
\* pre_delete.send(sender=type(instance), instance=instance): every live
\* receiver connected for that sender runs, then the entity is deleted
Receivers(model) == {r \in receivers : r.sender = model}

DeleteTarget(instance) ==
    /\ instance \in entities
    /\ storage' = IF Receivers(instance.model) = {}
                  THEN storage
                  ELSE deleting_target_object(storage, instance)
    /\ entities' = entities \ {instance}
    /\ last' = [op |-> "delete",
                invoked |-> {r.receiver : r \in Receivers(instance.model)}]
    /\ UNCHANGED <<threads, form, nextId, now, registryVars>>

\* ---- registry operations ----
Register(model_or_iterable, handler_class, options) ==
    LET r == Registry_register(model_or_iterable, handler_class, options)
        models == AsList(model_or_iterable)
    IN
    /\ r.nextHandler <= MaxHandlers + 1
    /\ registry' = r.registry
    /\ receivers' = r.receivers
    /\ nextHandler' = r.nextHandler
    /\ latest' = IF r.outcome = "ok"
                 THEN [m \in Models |->
                         IF \E i \in DOMAIN models : models[i] = m
                         THEN r.registry[m].id ELSE latest[m]]
                 ELSE latest
    /\ last' = [op |-> "register", outcome |-> r.outcome]
    /\ UNCHANGED <<threads, form, storageVars, now, entities>>

Unregister(model_or_iterable) ==
    LET r == Registry_unregister(model_or_iterable) IN
    /\ registry' = r.registry
    /\ latest' = [m \in Models |->
                    IF r.registry[m] = NoHandler THEN 0 ELSE latest[m]]
    /\ last' = [op |-> "unregister", outcome |-> r.outcome]
    /\ UNCHANGED <<threads, form, storageVars, now, entities, receivers, nextHandler>>

GetHandler(model_or_instance) ==
    /\ last' = [op |-> "get_handler",
                handler |-> Registry_get_handler(model_or_instance)]
    /\ UNCHANGED <<threads, form, storageVars, now, entities, registryVars>>

\* pre_delete.connect keeps a weak reference to the receiver: the receiver
\* of a handler the registry no longer holds goes away when the handler is
\* collected
HandlerCollected(r) ==
    /\ r \in receivers
    /\ registry[r.sender].id # r.receiver
    /\ receivers' = receivers \ {r}
    /\ last' = [op |-> "collected"]
    /\ UNCHANGED <<threads, form, storageVars, now, entities, registry, nextHandler, latest>>

\* ---- specifications ----
\* a single model given to register or unregister
Single(model) == [single |-> TRUE, model |-> model, models |-> <<>>]

BackendNext ==
    \/ \E u \in Users, e \in Entities, k \in Keys : Add(u, e, k)
    \/ \E u \in Users, e \in Entities, k \in Keys : Remove(u, e, k)
    \/ \E e \in Entities : RemoveAllFor(e)
    \/ \E u \in Users, e \in Entities, k \in Keys : Exists(u, e, k)
    \/ \E u \in Users, e \in Entities, k \in Keys : FormSave(u, e, k)

\* every operation that inserts or deletes bookmarks, the deletion of target
\* entities included, with models registered with the default handler
StorageNext ==
    \/ \E u \in Users, e \in Entities, k \in Keys : Add(u, e, k)
    \/ \E u \in Users, e \in Entities, k \in Keys : Remove(u, e, k)
    \/ \E e \in Entities : RemoveAllFor(e)
    \/ \E u \in Users, e \in Entities, k \in Keys : FormSave(u, e, k)
    \/ \E e \in Entities : DeleteTarget(e)
    \/ \E m \in Models : Register(Single(m), None, <<>>)

\* the calls on a bookmark form, from its construction on
FormNext ==
    \/ \E u \in FormUsers, d \in FormData : NewForm(u, d)
    \/ IsValid
    \/ Instance
    \/ BookmarkExists
    \/ Save

\* requests to the bookmark view, with models registered one by one and
\* bookmarks of one user under the default key added and removed in between
ViewNext ==
    \/ \E request \in Requests : View(request)
    \/ \E m \in Models, o \in Options : Register(Single(m), None, o)
    \/ \E e \in Entities : Add("user1", e, DEFAULT_KEY)
    \/ \E e \in Entities : Remove("user1", e, DEFAULT_KEY)

\* the calls on the handlers of the registered models
HandlerNext ==
    \/ \E m \in Models, c \in HandlerClassArgs, o \in Options :
          Register(Single(m), c, o)
    \/ \E m \in Models : Unregister(Single(m))
    \/ \E m \in Models, args \in GetKeyArgs : GetKey(m, args)

\* two requests at a time in BookmarkForm.save, in every interleaving
RaceNext ==
    \/ \E targets \in [Threads -> Entities] : ConcurrentRequests(targets)
    \/ \E t \in Threads : SaveExists(t)
    \/ \E t \in Threads : SaveMethod(t)

FilterNext ==
    \/ Tick
    \/ \E u \in Users, e \in Entities, k \in Keys : Add(u, e, k)
    \/ \E u \in Users, e \in Entities, k \in Keys : Remove(u, e, k)
    \/ \E u \in Users, rev \in BOOLEAN, kw \in FilterByKwargs : FilterBy(u, rev, kw)
    \/ \E e \in Entities, rev \in BOOLEAN, kw \in FilterForKwargs : FilterFor(e, rev, kw)

RegistryNext ==
    \/ \E x \in ModelOrIterable, c \in HandlerClassArgs, o \in Options :
          Register(x, c, o)
    \/ \E x \in ModelOrIterable : Unregister(x)
    \/ \E x \in ModelOrInstance : GetHandler(x)
    \/ \E r \in receivers : HandlerCollected(r)

\* registration of single models with the default handler, bookmarks of one
\* user under the default key and deletion of target entities
CascadeNext ==
    \/ \E m \in Models : Register(Single(m), None, <<>>)
    \/ \E m \in Models : Unregister(Single(m))
    \/ \E e \in Entities : Add("user1", e, DEFAULT_KEY)
    \/ \E e \in Entities : DeleteTarget(e)
    \/ \E r \in receivers : HandlerCollected(r)

Next ==
    \/ BackendNext \/ StorageNext \/ FilterNext \/ CascadeNext \/ RegistryNext
    \/ FormNext \/ ViewNext \/ HandlerNext \/ RaceNext

\* the backend and the form toggle
SpecBackend == Init /\ [][BackendNext]_vars
\* the table of bookmarks under every operation that changes it
SpecStorage == Init /\ [][StorageNext]_vars
\* the bookmark form
SpecForm == Init /\ [][FormNext]_vars
\* the bookmark view
SpecView == Init /\ [][ViewNext]_vars
\* the backend queries, with a clock that may stand still between inserts
SpecFilter == Init /\ [][FilterNext]_vars
\* the delete signal of the target models
SpecCascade == Init /\ [][CascadeNext]_vars
\* save of two requests side by side
SpecRace == Init /\ [][RaceNext]_vars
\* the handlers
SpecHandler == Init /\ [][HandlerNext]_vars
\* the registry alone
SpecRegistry == Init /\ [][RegistryNext]_vars
Spec == Init /\ [][Next]_vars

\* ---- helpers of the properties ----
\* the bookmark references the entity
References(b, instance) ==
    /\ b.content_type = get_content_type_for_model(instance.model)
    /\ b.object_id = instance.pk

\* the rows stored for (user, instance, key)
RowsOf(st, user, instance, key) ==
    {b \in st : References(b, instance) /\ b.user = user /\ b.key = key}

Stored(user, instance, key) == RowsOf(storage, user, instance, key) # {}

\* ---- C1 ----
\* C1: in every state reachable by add, remove, remove_all_for, the toggle of
\* the form and the deletion of targets, storage holds at most one bookmark
\* for each (target type, target id, key, user).
C1_Unique ==
    \A a, b \in storage :
        (/\ a.content_type = b.content_type
         /\ a.object_id = b.object_id
         /\ a.key = b.key
         /\ a.user = b.user) => a = b

\* a second add of a stored tuple was refused while two bookmarks are stored
C1_Witness ==
    /\ last.op = "add"
    /\ last.outcome = "AlreadyExists"
    /\ Cardinality(storage) = 2

\* ---- C2 ----
\* C2: add(user, target, key) for a tuple that is already stored fails with
\* AlreadyExists and leaves the stored bookmarks as they were.
C2_AddTwice ==
    [][last'.op = "add" =>
        \A u \in Users, e \in Entities, k \in Keys :
          (Add(u, e, k) /\ Stored(u, e, k)) =>
              (last'.outcome = "AlreadyExists" /\ storage' = storage)]_vars

C2_Witness ==
    /\ last.op = "add"
    /\ last.outcome = "AlreadyExists"
    /\ storage # {}

\* ---- C3 ----
\* C3: remove(user, target, key) fails with DoesNotExist and changes nothing
\* when the tuple is not stored, and deletes exactly the bookmark of the tuple
\* when it is.
C3_Remove ==
    [][last'.op = "remove" =>
        \A u \in Users, e \in Entities, k \in Keys :
          Remove(u, e, k) =>
              IF Stored(u, e, k)
              THEN /\ last'.outcome = "ok"
                   /\ storage' = storage \ RowsOf(storage, u, e, k)
                   /\ Cardinality(storage') = Cardinality(storage) - 1
              ELSE /\ last'.outcome = "DoesNotExist"
                   /\ storage' = storage]_vars

\* a remove was refused while another bookmark is stored
C3_Witness ==
    /\ last.op = "remove"
    /\ last.outcome = "DoesNotExist"
    /\ storage # {}

\* ---- C4 ----
\* C4: exists(user, target, key) is true exactly when a bookmark of the tuple
\* is stored (true after a successful add, false after its remove) and
\* exists changes no stored bookmark.
C4_Exists ==
    [][/\ last'.op = "exists" =>
            \A u \in Users, e \in Entities, k \in Keys :
               Exists(u, e, k) =>
                   ((last'.found <=> Stored(u, e, k)) /\ storage' = storage)
       /\ (last'.op = "add" /\ last'.outcome = "ok") =>
            \A u \in Users, e \in Entities, k \in Keys :
               Add(u, e, k) => Backend_exists(u, e, k)'
       /\ (last'.op = "remove" /\ last'.outcome = "ok") =>
            \A u \in Users, e \in Entities, k \in Keys :
               Remove(u, e, k) => ~Backend_exists(u, e, k)'
       /\ last'.op = "remove_all_for" =>
            \A u \in Users, e \in Entities, k \in Keys :
               Backend_exists(u, e, k)' <=>
                   (Stored(u, e, k) /\ e # last'.instance)]_vars

\* exists answered false while a bookmark of another tuple is stored
C4_Witness ==
    /\ last.op = "exists"
    /\ ~last.found
    /\ storage # {}

\* ---- C5 ----
\* creation order: the listing of the rows by ascending primary key
CreationOrder(S) ==
    CHOOSE s \in Listings(S) : \A i, j \in DOMAIN s : i < j => s[i].id < s[j].id

\* C5: filter_by(user, **lookups) returns exactly the matching bookmarks of the
\* user in ascending creation order, filter_for(target, **lookups) those of
\* the target, and reversed=True returns the exact reverse.
C5_FilterOrder ==
    [][/\ last'.op = "filter_by" =>
          \A u \in Users, rev \in BOOLEAN, kw \in FilterByKwargs :
            FilterBy(u, rev, kw) =>
                LET S == {b \in storage : b.user = u /\ Matches(b, kw)} IN
                last'.rows = IF rev THEN Reverse(CreationOrder(S))
                                    ELSE CreationOrder(S)
       /\ last'.op = "filter_for" =>
          \A e \in Entities, rev \in BOOLEAN, kw \in FilterForKwargs :
            FilterFor(e, rev, kw) =>
                LET S == {b \in storage : References(b, e) /\ Matches(b, kw)} IN
                last'.rows = IF rev THEN Reverse(CreationOrder(S))
                                    ELSE CreationOrder(S)]_vars

\* ---- C6 ----
\* C6: remove_all_for(target) deletes every bookmark that references target,
\* of every user and key, and leaves every other bookmark, also one of an
\* entity of another type with the same id.
C6_RemoveAllFor ==
    [][last'.op = "remove_all_for" =>
        \A e \in Entities :
          RemoveAllFor(e) =>
              storage' = {b \in storage : ~References(b, e)}]_vars

\* after remove_all_for one of two bookmarks is left, and it is the bookmark
\* of an entity of another type that has the id of the target
C6_Witness ==
    /\ last.op = "remove_all_for"
    /\ nextId = 3
    /\ Cardinality(storage) = 1
    /\ \E b \in storage :
          /\ b.object_id = last.instance.pk
          /\ b.content_type # get_content_type_for_model(last.instance.model)

\* ---- C7 ----
\* C7: while a model is registered, the deletion of an entity of the model
\* invokes deleting_target_object of the model's handler, and no stored
\* bookmark references the entity after the deletion.
C7_Cascade ==
    [][last'.op = "delete" =>
        \A e \in Entities :
          (DeleteTarget(e) /\ registry[e.model] # NoHandler) =>
              /\ registry[e.model].id \in last'.invoked
              /\ \A b \in storage' : ~References(b, e)]_vars

\* an entity of a registered model was deleted and took its bookmark along,
\* the bookmark of another entity is left
C7_Witness ==
    /\ last.op = "delete"
    /\ \E m \in Models : registry[m] # NoHandler /\ registry[m].id \in last.invoked
    /\ nextId = 3
    /\ Cardinality(storage) = 1

\* ---- C8 ----
\* C8: register fails with AlreadyHandled whenever one of the given models is
\* registered, and succeeds, registering every given model, whenever none is.
C8_Register ==
    [][last'.op = "register" =>
        \A x \in ModelOrIterable, c \in HandlerClassArgs, o \in Options :
          Register(x, c, o) =>
              LET models == AsList(x) IN
              IF \E i \in DOMAIN models : registry[models[i]] # NoHandler
              THEN last'.outcome = "AlreadyHandled"
              ELSE /\ last'.outcome = "ok"
                   /\ \A i \in DOMAIN models : registry'[models[i]] # NoHandler]_vars

\* ---- C9 ----
\* C9: unregister fails with NotHandled whenever one of the given models is
\* not registered, and otherwise removes every given model from the registry.
C9_Unregister ==
    [][last'.op = "unregister" =>
        \A x \in ModelOrIterable :
          Unregister(x) =>
              LET models == AsList(x) IN
              IF \E i \in DOMAIN models : registry[models[i]] = NoHandler
              THEN last'.outcome = "NotHandled"
              ELSE /\ last'.outcome = "ok"
                   /\ \A i \in DOMAIN models : registry'[models[i]] = NoHandler]_vars

\* ---- C10 ----
\* C10: get_handler(x), x a model or an instance of it, returns the handler
\* created by the latest successful register of the model if the model is
\* registered, and none otherwise.
C10_GetHandler ==
    [][last'.op = "get_handler" =>
        \A x \in ModelOrInstance :
          GetHandler(x) =>
              LET model == IF x.isModel THEN x.model ELSE x.instance.model IN
              IF registry[model] # NoHandler
              THEN last'.handler.id = latest[model]
              ELSE last'.handler = NoHandler]_vars

\* ---- C11 ----
\* the attributes a handler of the class has when no option overrides them
ClassDefault(f) ==
    IF f = "default_key" THEN DEFAULT_KEY ELSE CAN_REMOVE_BOOKMARKS

\* C11: in every state the registry reaches, register(models, handler_class,
\* **options) gives every model it registers a new handler of its own, of
\* class handler_class (Handler when none is given), bound to the model, with
\* every option as an attribute and the class defaults for the other
\* attributes whatever was registered before; a call that returns has
\* registered every given model, and the handlers of the other models stay as
\* they were.
C11_RegisterHandler ==
    \A x \in ModelOrIterable, c \in HandlerClassArgs, o \in Options :
        LET r == Registry_register(x, c, o)
            models == AsList(x)
            made == {m \in Models :
                        registry[m] = NoHandler /\ r.registry[m] # NoHandler}
        IN
        r.nextHandler <= MaxHandlers + 1 =>
          /\ \A m \in made :
                /\ r.registry[m].model = m
                /\ r.registry[m].cls = (IF c = None THEN "Handler" ELSE c)
                /\ \A f \in {"default_key", "can_remove_bookmarks"} :
                      r.registry[m][f] =
                          IF f \in DOMAIN o THEN o[f] ELSE ClassDefault(f)
                /\ r.registry[m].id >= nextHandler
                /\ \A n \in made : r.registry[n].id = r.registry[m].id => n = m
          /\ \A m \in Models \ made : r.registry[m] = registry[m]
          /\ r.outcome = "ok" => \A i \in DOMAIN models : models[i] \in made

\* a model was registered with the class defaults after another model was
\* registered with an overridden default_key, and both handlers are held
C11_Witness ==
    /\ last.op = "register"
    /\ last.outcome = "ok"
    /\ \E m, n \in Models :
          /\ registry[m] # NoHandler
          /\ registry[n] # NoHandler
          /\ registry[m].default_key = "other"
          /\ registry[n].default_key = DEFAULT_KEY
          /\ registry[n].id > registry[m].id

\* ---- C12 ----
\* validated-ok: the form was validated and kept no error
ValidatedOk(f) == f.validated /\ f.errors = {}

\* C12: a form built for an anonymous user is never validated-ok, whatever
\* its data: is_valid() answers False and instance() answers None.
C12_Anonymous ==
    is_anonymous(form.user) =>
        /\ ~ValidatedOk(form)
        /\ last.op = "is_valid" => (last.outcome = "ok" /\ ~last.valid)
        /\ last.op = "instance" => last.instance = NoEntity

\* a form with the data of an existing entity and a good key was validated
\* for an anonymous user
C12_Witness ==
    /\ is_anonymous(form.user)
    /\ last.op = "is_valid"
    /\ form.validated
    /\ form.content_type_id = 1
    /\ form.object_id = "1"
    /\ form.key = "main"

\* ---- C13 ----
\* the data of the form name an existing entity of a known type
Resolves(f) ==
    \E m \in ContentType_get(f.content_type_id), k \in ParsePk(f.object_id) :
        [model |-> m, pk |-> k] \in entities

\* C13: a validated form of an authenticated user whose type id names no
\* known type, or whose object id names no existing entity of that type, has
\* failed validation.
C13_Unresolved ==
    (/\ form # NoForm
     /\ ~is_anonymous(form.user)
     /\ form.validated
     /\ ~Resolves(form)) => form.errors # {}

\* ---- C14 ----
\* C14: save() on a validated-ok form with its target resolved removes the
\* bookmark of (user, target, key) when it is stored and returns it detached,
\* without a primary key; otherwise it stores one new bookmark of the triple
\* and returns it with its primary key.
C14_Toggle ==
    [][(/\ last'.op = "form_save"
        /\ Save
        /\ ValidatedOk(form)
        /\ form._instance # NoEntity) =>
           LET rows == RowsOf(storage, form.user, form._instance, form.key) IN
           IF rows # {}
           THEN /\ storage' = storage \ rows
                /\ last'.ret = {[b EXCEPT !.id = 0] : b \in rows}
           ELSE \E b \in storage' :
                   /\ b \notin storage
                   /\ storage' = storage \cup {b}
                   /\ RowsOf(storage', form.user, form._instance, form.key) = {b}
                   /\ b.id # 0
                   /\ last'.ret = {b}]_vars

\* ---- C15 ----
\* C15, as claimed: save() and bookmark_exists() on a form that was not
\* validated, that failed validation or that was built for an anonymous user
\* fail with ValueError and change no stored bookmark.
C15_InvalidState ==
    [][(/\ last'.op \in {"form_save", "bookmark_exists"}
        /\ Save \/ BookmarkExists
        /\ ~form.validated \/ form.errors # {} \/ is_anonymous(form.user)) =>
           (last'.outcome = "ValueError" /\ storage' = storage)]_vars

\* C15, amended: bookmark_exists() validates the form itself and fails with
\* ValueError whenever the form does not validate, anonymous user included;
\* save() on a form that is not validated-ok fails with an error, which is
\* AttributeError when the form was never validated; neither call changes a
\* stored bookmark.
C15_InvalidStateAmended ==
    [][/\ (/\ last'.op = "bookmark_exists"
            /\ BookmarkExists
            /\ ~BookmarkForm_is_valid(form).valid) =>
               (last'.outcome = "ValueError" /\ storage' = storage)
       /\ (/\ last'.op = "form_save"
            /\ Save
            /\ ~ValidatedOk(form)) =>
               /\ last'.outcome \notin {"added", "removed"}
               /\ ~form.validated => last'.outcome = "AttributeError"
               /\ storage' = storage]_vars

\* bookmark_exists() raised ValueError on the form of an anonymous user
\* while a bookmark is stored
C15_Witness ==
    /\ last.op = "bookmark_exists"
    /\ last.outcome = "ValueError"
    /\ is_anonymous(form.user)
    /\ storage # {}

\* ---- C16 ----
\* the steps a request went through
Events(trace) == {trace[i] : i \in DOMAIN trace}

\* C16: a request whose method is not POST is answered with 403 and goes
\* through no step: no model or handler is resolved, no signal is sent, and
\* the stored bookmarks and the registry are as before.
C16_PostOnly ==
    [][(last'.op = "view" /\ last'.method # "POST") =>
          /\ last'.status = "403"
          /\ last'.trace = <<>>
          /\ storage' = storage
          /\ registry' = registry]_vars

\* a GET was answered with 403 while a model is registered and a bookmark
\* of it is stored
C16_Witness ==
    /\ last.op = "view"
    /\ last.method = "GET"
    /\ last.status = "403"
    /\ \E b \in storage, m \in Models :
          /\ registry[m] # NoHandler
          /\ b.content_type = get_content_type_for_model(m)

\* ---- C17 ----
\* the model a request names is known and registered
Handled(request) ==
    /\ get_model(request.model) # {}
    /\ \A m \in get_model(request.model) : registry[m] # NoHandler

\* C17: a POST whose model name is of no known model, or of a model that is
\* not registered, is answered with 400; no form is built, no signal is sent
\* and the stored bookmarks are as before.
C17_BadModel ==
    [][(last'.op = "view" /\ last'.method = "POST") =>
        \A request \in Requests :
          (View(request) /\ request.method = "POST" /\ ~Handled(request)) =>
              /\ last'.status = "400"
              /\ Events(last'.trace)
                   \cap {"get_form", "pre_save", "save", "post_save"} = {}
              /\ storage' = storage]_vars

\* ---- C18 ----
\* the form the view builds for the request, validated
FormOf(request) ==
    BookmarkForm_is_valid(BookmarkForm(request.user, request.data))

\* the request passes the form and the key check of its handler
Accepted(request) ==
    /\ Handled(request)
    /\ FormOf(request).valid
    /\ \A m \in get_model(request.model) :
          Handler_allow_key(registry[m], request.data.key)

\* a receiver of the pre-save signal answers False: the request would remove
\* a stored bookmark and the hook of the handler refuses
Vetoed(request) ==
    LET f == FormOf(request).form IN
    /\ f._instance # NoEntity
    /\ Stored(f.user, f._instance, f.key)
    /\ \E m \in get_model(request.model) :
          ~Handler_pre_remove(registry[m], request.user)

\* C18: in every request the save comes only after the pre-save signal and
\* the post-save signal only after the save, once; a request that passes form
\* and key check and whose pre-save signal is answered False ends with 400,
\* without save or post-save signal and with the stored bookmarks as before.
C18_SignalOrder ==
    [][last'.op = "view" =>
        LET t == last'.trace IN
        /\ \A i \in DOMAIN t :
              /\ t[i] = "save" => \E j \in 1..(i - 1) : t[j] = "pre_save"
              /\ t[i] = "post_save" => \E j \in 1..(i - 1) : t[j] = "save"
        /\ Cardinality({i \in DOMAIN t : t[i] = "post_save"}) =
              Cardinality({i \in DOMAIN t : t[i] = "save"})
        /\ Cardinality({i \in DOMAIN t : t[i] = "save"}) <= 1
        /\ \A request \in Requests :
              (/\ View(request) /\ request.method = "POST"
               /\ Accepted(request) /\ Vetoed(request)) =>
                  /\ last'.status = "400"
                  /\ "pre_save" \in Events(t)
                  /\ Events(t) \cap {"save", "post_save"} = {}
                  /\ storage' = storage]_vars

\* ---- C19 ----
\* C19: a POST for a registered model whose form does not validate is
\* answered by handler.fail with 400; no pre-save or post-save signal is sent
\* and the stored bookmarks are as before.
C19_FormFails ==
    [][(last'.op = "view" /\ last'.method = "POST") =>
        \A request \in Requests :
          (/\ View(request) /\ request.method = "POST"
           /\ Handled(request) /\ ~FormOf(request).valid) =>
              /\ last'.status = "400"
              /\ "fail" \in Events(last'.trace)
              /\ Events(last'.trace) \cap {"pre_save", "save", "post_save"} = {}
              /\ storage' = storage]_vars

\* ---- C20 ----
\* C20: a handler with the default allow_key allows a key only when it is
\* the default key of the handler; a POST with a valid form and a key the
\* handler does not allow is answered with 400, no signal is sent and the
\* stored bookmarks are as before.
C20_AllowKey ==
    [][/\ \A m \in Models, k \in KeyData \cup Keys :
            (registry[m] # NoHandler /\ Handler_allow_key(registry[m], k)) =>
                k = registry[m].default_key
       /\ (last'.op = "view" /\ last'.method = "POST") =>
            \A request \in Requests :
              (/\ View(request) /\ request.method = "POST"
               /\ Handled(request) /\ FormOf(request).valid
               /\ \E m \in get_model(request.model) :
                     ~Handler_allow_key(registry[m], request.data.key)) =>
                  /\ last'.status = "400"
                  /\ Events(last'.trace) \cap {"pre_save", "save", "post_save"} = {}
                  /\ storage' = storage]_vars

\* ---- C21 ----
\* C21: handler.get_key called with request, target and a provided key
\* returns the provided key when one is given, and the default key of the
\* handler when none is given.
C21_GetKey ==
    [][last'.op = "get_key" =>
        \A m \in Models, args \in GetKeyArgs :
          (GetKey(m, args) /\ Len(args) = 3) =>
              /\ last'.outcome = "ok"
              /\ last'.ret = {IF args[3] = None THEN registry[m].default_key
                                                ELSE args[3]}]_vars

\* ---- C22 ----
\* C22: when the handler of the model a request names has
\* can_remove_bookmarks false, or the user of the request is anonymous,
\* pre_remove of the handler answers False and the request to the view
\* removes no bookmark: every bookmark stored before it is stored after it.
C22_NoRemoval ==
    [][last'.op = "view" =>
        LET model == get_model(last'.model) IN
        (/\ model # {}
         /\ \A m \in model : registry[m] # NoHandler
         /\ \/ is_anonymous(last'.user)
            \/ \E m \in model : ~registry[m].can_remove_bookmarks) =>
            /\ \A m \in model : ~Handler_pre_remove(registry[m], last'.user)
            /\ storage \subseteq storage']_vars

\* a POST for a known model was answered while every model is registered
\* with can_remove_bookmarks false and bookmarks are stored
C22_Witness ==
    /\ last.op = "view" /\ last.method = "POST"
    /\ get_model(last.model) # {}
    /\ ~is_anonymous(last.user)
    /\ \A m \in Models :
          /\ registry[m] # NoHandler
          /\ ~registry[m].can_remove_bookmarks
          /\ \E b \in storage : b.content_type = get_content_type_for_model(m)

\* ---- C23 ----
\* the number of steps of a trace that are among the given events
Count(trace, events) == Cardinality({i \in DOMAIN trace : trace[i] \in events})

\* C23: a request that passes form and key check invokes exactly one pre hook
\* of the handler of the model of the target, pre_remove when the bookmark is
\* stored and pre_add when it is not, and after a save exactly one post hook,
\* post_add after an add and post_remove after a removal; the relay of a
\* registry that does not hold the model of the target answers False to the
\* pre hook.
C23_Relay ==
    [][(last'.op = "view" /\ last'.method = "POST") =>
        \A request \in Requests :
          LET f == FormOf(request).form
              t == last'.trace
          IN
          (/\ View(request) /\ request.method = "POST"
           /\ FormOf(request).valid /\ f._instance # NoEntity) =>
              /\ Accepted(request) =>
                    /\ Count(t, {"pre_add", "pre_remove"}) = 1
                    /\ Count(t, {"post_add", "post_remove"}) = Count(t, {"save"})
                    /\ IF Stored(f.user, f._instance, f.key)
                       THEN /\ "pre_remove" \in Events(t)
                            /\ "post_add" \notin Events(t)
                       ELSE /\ "pre_add" \in Events(t)
                            /\ "post_remove" \notin Events(t)
              /\ registry[f._instance.model] = NoHandler =>
                    /\ Registry__pre_add(f, request.user).ret = {FALSE}
                    /\ Registry__pre_remove(f, request.user).ret = {FALSE}]_vars

\* ---- C24 ----
\* the two requests ran save for the same target, both after the same answer
\* of the existence check
Raced(exists) ==
    /\ \A t \in Threads : threads[t].pc = "done" /\ threads[t].outcome # "none"
    /\ threads[1].instance = threads[2].instance
    /\ \A t \in Threads : threads[t].exists = exists

\* C24: under two requests that interleave between the existence check and
\* the insert or delete, storage never holds two bookmarks for one (user,
\* target, key); of two inserts exactly one succeeds and the other fails with
\* AlreadyExists, and of two deletes at most one removes the bookmark.
C24_Race ==
    /\ \A u \in Users, e \in Entities, k \in Keys :
          Cardinality(RowsOf(storage, u, e, k)) <= 1
    /\ Raced(FALSE) =>
          {threads[t].outcome : t \in Threads} = {"ok", "AlreadyExists"}
    /\ Raced(TRUE) =>
          Cardinality({t \in Threads : threads[t].changed}) <= 1

\* both requests found no bookmark and both went on to insert it
C24_Witness ==
    /\ Raced(FALSE)
    /\ \E t \in Threads : threads[t].outcome = "AlreadyExists"
    /\ \E u \in Users, e \in Entities, k \in Keys :
          Cardinality(RowsOf(storage, u, e, k)) = 1

\* ---- C25 ----
\* the first check that fails on the data of the form, in the order user,
\* target type, target id, key
FirstFailing(f) ==
    IF is_anonymous(f.user) THEN {"user"}
    ELSE IF IntegerField_clean(f.content_type_id) = {}
            \/ ContentType_get(f.content_type_id) = {} THEN {"type"}
    ELSE IF ~Resolves(f) THEN {"id"}
    ELSE IF RegexField_clean(f.key) = {} THEN {"key"}
    ELSE {}

\* the checks the validated form reports as failed
Reported(f) ==
    (IF "Invalid user." \in f.messages THEN {"user"} ELSE {})
    \cup (IF "Invalid content type." \in f.messages
             \/ "content_type_id" \in f.errors THEN {"type"} ELSE {})
    \cup (IF "Invalid instance." \in f.messages
             \/ "object_id" \in f.errors THEN {"id"} ELSE {})
    \cup (IF "key" \in f.errors THEN {"key"} ELSE {})

\* C25: a validated form reports the first check that fails in the order
\* authenticated user, target type, target id, key pattern, and no other:
\* an anonymous user is rejected before target and key are examined and the
\* key is checked last.
C25_Order ==
    form.validated => Reported(form) = FirstFailing(form)

\* C25 as amended: the three fields, the key pattern among them, are checked
\* first and each on its own, an error being kept under each field that
\* fails; then clean() rejects an anonymous user before it looks at the
\* target, and else reports at most one error of the target, that of the
\* entity only when the type is known.
C25_OrderAmended ==
    form.validated =>
        /\ "content_type_id" \in form.errors <=> form.content_type_id < 0
        /\ "object_id" \in form.errors <=> form.object_id = ""
        /\ "key" \in form.errors <=> form.key \notin Keys
        /\ "__all__" \in form.errors <=> form.messages # {}
        /\ Cardinality(form.messages) <= 1
        /\ is_anonymous(form.user) =>
              form.messages = {"Invalid user."} /\ form._instance = NoEntity
        /\ "Invalid user." \in form.messages => is_anonymous(form.user)
        /\ "Invalid instance." \in form.messages =>
              ContentType_get(form.content_type_id) # {}

\* an anonymous user's form with a key outside the pattern was validated:
\* both the user and the key are reported
C25_Witness ==
    /\ form.validated
    /\ is_anonymous(form.user)
    /\ form.key = "bad key"
    /\ form.errors = {"key", "__all__"}

\* ---- C26 ----
\* C26: a form in the validated-ok state has its target resolved: instance()
\* answers an existing entity, never None, and neither save() nor
\* bookmark_exists() has run against a target that is None.
C26_TargetResolved ==
    (form # NoForm /\ ValidatedOk(form)) =>
        /\ BookmarkForm_instance(form).instance \in entities
        /\ last.op \in {"form_save", "bookmark_exists"} => last.outcome # "Error"

\* ---- C27 ----
\* C27: a request that passes the form, the key check and the pre-save
\* signal sends the post-save signal and answers through handler.response
\* with created true exactly when it added the bookmark, false when it
\* removed one.
C27_Created ==
    [][(last'.op = "view" /\ last'.method = "POST") =>
        \A request \in Requests :
          LET f == FormOf(request).form IN
          (/\ View(request) /\ request.method = "POST"
           /\ Accepted(request) /\ f._instance # NoEntity
           /\ ~Vetoed(request)) =>
              /\ "post_save" \in Events(last'.trace)
              /\ bookmark(request).created
                    = {~Stored(f.user, f._instance, f.key)}]_vars

\* ---- C28 ----
\* C28: after any calls of register and unregister the handlers subscribed
\* to the delete event of a model are the handler the model is registered
\* with, and none when the model is not registered.
C28_Subscribed ==
    \A m \in Models :
        {r.receiver : r \in Receivers(m)} =
            IF registry[m] = NoHandler THEN {} ELSE {registry[m].id}

\* ---- C29 ----
\* C29: two calls of save() in a row on a validated-ok form leave the stored
\* (user, target, key) as they were before the first call, and one of the two
\* calls adds and the other removes.
C29_SaveTwice ==
    /\ [](last.op = "form_save" /\ ValidatedOk(form) =>
             last.outcome \in {"added", "removed"})
    /\ [][(/\ last.op = "form_save" /\ last'.op = "form_save"
           /\ ValidatedOk(form)) =>
             /\ Tuples(storage') = last.before
             /\ {last.outcome, last'.outcome} = {"added", "removed"}]_vars

\* ---- C30 ----
\* C30: a call of register that raises AlreadyHandled, or of unregister that
\* raises NotHandled, leaves the registry and the subscriptions to the delete
\* events as they were before the call.
C30_AllOrNothing ==
    [][(\/ last'.op = "register" /\ last'.outcome = "AlreadyHandled"
        \/ last'.op = "unregister" /\ last'.outcome = "NotHandled") =>
          /\ registry' = registry
          /\ receivers' = receivers]_vars

====
